---------------------------- MODULE Spec2Model ----------------------------
(***************************************************************************)
(* A model of siegfried's result reconciliation (reader.Compare), of the   *)
(* identifier loader registry (core.LoadIdentifier) and of the phase-gated *)
(* identification run that drives core.Recorder.                           *)
(*                                                                         *)
(* Go strings are modelled as sequences of byte values, so that            *)
(* sort.Strings, strings.Join, filepath.Base and strconv.FormatInt are     *)
(* computed as the library computes them.                                  *)
(***************************************************************************)
EXTENDS Integers, Sequences, FiniteSets, TLC

(***************************************************************************)
(* Bounds of the model.                                                    *)
(***************************************************************************)
\* largest number of paths handed to Compare
MaxSets == 2
\* largest number of entries the readers deliver in one run of Compare
MaxEntries == 3

(***************************************************************************)
(* Strings.                                                                *)
(***************************************************************************)
\* "MISSING", the sentinel of compare.go:98
MISSING == <<77, 73, 83, 83, 73, 78, 71>>
\* ";", the separator of compare.go:59
Semicolon == <<59>>
\* "f1" and "f2", two identification strings
IdF1 == <<102, 49>>
IdF2 == <<102, 50>>

\* Go's < on strings: bytewise lexicographic order, as sort.Strings uses it
RECURSIVE StrLess(_, _)
StrLess(a, b) ==
    IF b = <<>> THEN FALSE
    ELSE IF a = <<>> THEN TRUE
    ELSE IF a[1] # b[1] THEN a[1] < b[1]
    ELSE StrLess(Tail(a), Tail(b))

\* insert s in the sorted list ss, after the elements not greater than it
RECURSIVE InsertSorted(_, _)
InsertSorted(s, ss) ==
    IF ss = <<>> THEN <<s>>
    ELSE IF StrLess(s, ss[1]) THEN <<s>> \o ss
    ELSE <<ss[1]>> \o InsertSorted(s, Tail(ss))

\* sort.Strings: the same strings (with their repetitions) in increasing order
RECURSIVE SortStrings(_)
SortStrings(ss) ==
    IF ss = <<>> THEN <<>>
    ELSE InsertSorted(ss[1], SortStrings(Tail(ss)))

\* strings.Join
RECURSIVE Join(_, _)
Join(ss, sep) ==
    IF ss = <<>> THEN <<>>
    ELSE IF Len(ss) = 1 THEN ss[1]
    ELSE ss[1] \o sep \o Join(Tail(ss), sep)

\* the path without its trailing separators ("/" is byte 47)
RECURSIVE StripTrailingSlashes(_)
StripTrailingSlashes(p) ==
    IF p # <<>> /\ p[Len(p)] = 47
    THEN StripTrailingSlashes(SubSeq(p, 1, Len(p) - 1))
    ELSE p

\* the part of p after its last separator
RECURSIVE AfterLastSlash(_)
AfterLastSlash(p) ==
    IF p = <<>> THEN <<>>
    ELSE IF \E k \in 1..Len(p) : p[k] = 47
         THEN AfterLastSlash(Tail(p))
         ELSE p

\* filepath.Base: "." for the empty path, "/" for a path of separators only
Base(p) ==
    IF p = <<>> THEN <<46>>
    ELSE LET q == StripTrailingSlashes(p)
         IN  IF q = <<>> THEN <<47>> ELSE AfterLastSlash(q)

\* the decimal digits of n >= 0 ("0" is byte 48)
RECURSIVE Digits(_)
Digits(n) ==
    IF n < 10 THEN <<48 + n>>
    ELSE Digits(n \div 10) \o <<48 + (n % 10)>>

\* strconv.FormatInt(n, 10) ("-" is byte 45)
FormatInt(n) ==
    IF n < 0 THEN <<45>> \o Digits(0 - n) ELSE Digits(n)

(***************************************************************************)
(* The entries a Reader may deliver: reader.File {Path, Size, Mod, Hash,   *)
(* IDs}, IDs given by the String() of each identification.                 *)
(***************************************************************************)
\* a/x, identified f2 then f1
FileAX == [Path |-> <<97, 47, 120>>, Size |-> 1, Mod |-> <<109>>,
           Hash |-> <<104>>, IDs |-> <<IdF2, IdF1>>]
\* b/x, the same content as a/x, identified f1 then f2
FileBX == [Path |-> <<98, 47, 120>>, Size |-> 1, Mod |-> <<109>>,
           Hash |-> <<104>>, IDs |-> <<IdF1, IdF2>>]
\* a/x again, other content, two identifiers both answering f1
FileAX2 == [Path |-> <<97, 47, 120>>, Size |-> 12, Mod |-> <<110>>,
            Hash |-> <<103>>, IDs |-> <<IdF1, IdF1>>]
\* y, whose one identification reads "MISSING"
FileY == [Path |-> <<121>>, Size |-> 0, Mod |-> <<>>,
          Hash |-> <<>>, IDs |-> <<MISSING>>]

Files == {FileAX, FileBX, FileAX2, FileY}

(***************************************************************************)
(* compare.go: the join strategies and the pure functions.                 *)
(***************************************************************************)
Path == 0
Filename == 1
FilenameSize == 2
FilenameMod == 3
FilenameHash == 4
Hash == 5

Joins == {Path, Filename, FilenameSize, FilenameMod, FilenameHash, Hash}

keygen(jn, fi) ==
    CASE jn = Filename -> Base(fi.Path)
      [] jn = FilenameSize -> Base(fi.Path) \o FormatInt(fi.Size)
      [] jn = FilenameMod -> Base(fi.Path) \o fi.Mod
      [] jn = FilenameHash -> Base(fi.Path) \o fi.Hash
      [] jn = Hash -> fi.Hash
      [] OTHER -> fi.Path

idStr(fi) == Join(SortStrings(fi.IDs), Semicolon)

\* a bug: columns holding the sentinel are not compared
matches_skipMissing(res) ==
    /\ Len(res) >= 3
    /\ \A a, b \in 2..Len(res) :
          (res[a] # MISSING /\ res[b] # MISSING) => res[a] = res[b]

matches(res) ==
    IF Len(res) < 3 THEN FALSE
    ELSE \A k \in 3..Len(res) : res[k] = res[2]

\* def of compare.go:95-99: the path, then one "MISSING" per reader
newRow(n, path) == [c \in 1..(n + 1) |-> IF c = 1 THEN path ELSE MISSING]

\* a bug: the key is appended whether or not it has a row
filesAfter_always(fs, res, key) == Append(fs, key)

\* files after an entry with this key (compare.go:92-94)
filesAfter(fs, res, key) ==
    IF key \in DOMAIN res THEN fs ELSE Append(fs, key)

\* a bug: a column once set is kept
resultsAfter_firstWins(res, key, fi, i, n) ==
    LET base == IF key \in DOMAIN res THEN res
                ELSE (key :> newRow(n, fi.Path)) @@ res
    IN  IF base[key][i + 2] = MISSING
        THEN [base EXCEPT ![key][i + 2] = idStr(fi)]
        ELSE base

\* results after entry fi of reader i (from 0) of n (compare.go:92-102)
resultsAfter(res, key, fi, i, n) ==
    LET base == IF key \in DOMAIN res THEN res
                ELSE (key :> newRow(n, fi.Path)) @@ res
    IN  [base EXCEPT ![key][i + 2] = idStr(fi)]



(***************************************************************************)
(* core.go: the loader table and the matcher types.                        *)
(***************************************************************************)
\* the length of the array loaders
NumLoaders == 8
\* the largest value of a byte, the type of the tag
MaxByte == 255

ExtensionMatcher == 0
ContainerMatcher == 1
ByteMatcher == 2

(***************************************************************************)
(* The state.                                                              *)
(***************************************************************************)
VARIABLES
    \* one call Compare(w, join, paths...)
    join,        \* the join argument
    npaths,      \* len(paths)
    pc,          \* where the call is: "start", "open", "read", "write", "done"
    idx,         \* i of the loop over paths (line 80) or readers (line 89)
    files,       \* the keys in the order first seen
    results,     \* the row of each key
    complete,    \* the local of line 106
    wpos,        \* the number of keys the loop of line 107 has passed
    csv,         \* the records handed to the csv writer
    emitted,     \* the keys of those records
    marker,      \* "COMPLETE MATCH" has been printed to w
    ret,         \* the value returned: "none" while the call runs
    read,        \* for each reader, the entries its Next has delivered
    opens,       \* the number of calls of Open
    openFailed,  \* some Open returned an error
    nextCalls,   \* the number of calls of Next
    parseFailed, \* some Next returned an error that is not io.EOF
    \* the loader table and one call LoadIdentifier(ls)
    loaders,     \* the array loaders: "nil" or "loader" at 0..7
    ls,          \* the cursor: the bytes left and its Err
    lpc,         \* "init" while identifiers register, "done" after the call
    tag,         \* the byte LoadByte returned, -1 before the call
    loadRet,     \* what the call returned: "none", "nil" or "identifier"
    panicked,    \* a run-time panic ended the program
    \* the identification run of one file
    opc,         \* "match", "report" or "done"
    phase,       \* the position in the sequence of matcher types, from 1
    invoked,     \* the matchers whose Identify has been called
    stream,      \* for each invoked matcher, the results left on its stream
    offered,     \* the number of results offered to the recorders
    satisfied,   \* for each finished phase, whether every Recorder was satisfied
    reports      \* for each Recorder, the number of calls of Report

compareVars == <<join, npaths, pc, idx, files, results, complete, wpos, csv,
                 emitted, marker, ret, read, opens, openFailed, nextCalls,
                 parseFailed>>
loadVars == <<loaders, ls, lpc, tag, loadRet, panicked>>
orchVars == <<opc, phase, invoked, stream, offered, satisfied, reports>>
vars == <<compareVars, loadVars, orchVars>>

(***************************************************************************)
(* Compare.                                                                *)
(***************************************************************************)
InitCompare ==
    /\ join \in Joins
    /\ npaths \in 0..MaxSets
    /\ pc = "start"
    /\ idx = 0
    /\ files = <<>>
    /\ results = <<>>
    /\ complete = TRUE
    /\ wpos = 0
    /\ csv = <<>>
    /\ emitted = <<>>
    /\ marker = FALSE
    /\ ret = "none"
    /\ read = [r \in 0..(npaths - 1) |-> <<>>]
    /\ opens = 0
    /\ openFailed = FALSE
    /\ nextCalls = 0
    /\ parseFailed = FALSE

\* Compare is not called
IdleCompare ==
    /\ join = Path
    /\ npaths = 0
    /\ pc = "idle"
    /\ idx = 0
    /\ files = <<>>
    /\ results = <<>>
    /\ complete = TRUE
    /\ wpos = 0
    /\ csv = <<>>
    /\ emitted = <<>>
    /\ marker = FALSE
    /\ ret = "none"
    /\ read = <<>>
    /\ opens = 0
    /\ openFailed = FALSE
    /\ nextCalls = 0
    /\ parseFailed = FALSE

\* compare.go:76-78
CheckPaths ==
    /\ pc = "start"
    /\ IF npaths < 2
       THEN pc' = "done" /\ ret' = "ErrTooFewPaths"
       ELSE pc' = "open" /\ ret' = ret
    /\ UNCHANGED <<join, npaths, idx, files, results, complete, wpos, csv,
                   emitted, marker, read, opens, openFailed, nextCalls,
                   parseFailed>>
    /\ UNCHANGED <<loadVars, orchVars>>

\* a bug: the error of Open is dropped and the loop goes on
OpenPath_errorDropped ==
    /\ pc = "open"
    /\ opens' = opens + 1
    /\ \E ok \in BOOLEAN :
          /\ openFailed' = (openFailed \/ ~ok)
          /\ pc' = IF idx + 1 = npaths THEN "read" ELSE "open"
          /\ idx' = IF idx + 1 = npaths THEN 0 ELSE idx + 1
    /\ UNCHANGED <<join, npaths, files, results, complete, wpos, csv, emitted,
                   marker, ret, read, nextCalls, parseFailed>>
    /\ UNCHANGED <<loadVars, orchVars>>

\* compare.go:80-86, one pass of the loop; the loop over the readers starts
\* once the last path is open
OpenPath ==
    /\ pc = "open"
    /\ opens' = opens + 1
    /\ \E ok \in BOOLEAN :
          IF ok
          THEN /\ pc' = IF idx + 1 = npaths THEN "read" ELSE "open"
               /\ idx' = IF idx + 1 = npaths THEN 0 ELSE idx + 1
               /\ UNCHANGED <<ret, openFailed>>
          ELSE /\ pc' = "done"
               /\ idx' = idx
               /\ ret' = "ErrOpen"
               /\ openFailed' = TRUE
    /\ UNCHANGED <<join, npaths, files, results, complete, wpos, csv, emitted,
                   marker, read, nextCalls, parseFailed>>
    /\ UNCHANGED <<loadVars, orchVars>>

\* compare.go:90-102, Next delivers an entry
ReadEntry ==
    /\ pc = "read"
    /\ nextCalls - idx < MaxEntries
    /\ \E fi \in Files :
          LET key == keygen(join, fi)
          IN  /\ files' = filesAfter(files, results, key)
              /\ results' = resultsAfter(results, key, fi, idx, npaths)
              /\ read' = [read EXCEPT ![idx] = Append(@, fi)]
    /\ nextCalls' = nextCalls + 1
    /\ UNCHANGED <<join, npaths, pc, idx, complete, wpos, csv, emitted,
                   marker, ret, opens, openFailed, parseFailed>>
    /\ UNCHANGED <<loadVars, orchVars>>

\* compare.go:90, Next returns an error, io.EOF or another: the loop over
\* this reader ends; after the last reader, lines 105-106
ReadEnd ==
    /\ pc = "read"
    /\ \E e \in {"EOF", "ErrParse"} :
          parseFailed' = (parseFailed \/ e = "ErrParse")
    /\ nextCalls' = nextCalls + 1
    /\ IF idx + 1 = npaths
       THEN pc' = "write" /\ idx' = idx /\ complete' = TRUE /\ wpos' = 0
       ELSE pc' = "read" /\ idx' = idx + 1 /\ UNCHANGED <<complete, wpos>>
    /\ UNCHANGED <<join, npaths, files, results, csv, emitted, marker, ret,
                   read, opens, openFailed>>
    /\ UNCHANGED <<loadVars, orchVars>>

\* compare.go:107-114, one pass of the loop
WriteRow ==
    /\ pc = "write"
    /\ wpos < Len(files)
    /\ LET f == files[wpos + 1]
       IN  IF matches(results[f])
           THEN /\ wpos' = wpos + 1
                /\ UNCHANGED <<pc, complete, csv, emitted, ret>>
           ELSE /\ complete' = FALSE
                /\ \E ok \in BOOLEAN :
                      IF ok
                      THEN /\ csv' = Append(csv, results[f])
                           /\ emitted' = Append(emitted, f)
                           /\ wpos' = wpos + 1
                           /\ UNCHANGED <<pc, ret>>
                      ELSE /\ pc' = "done"
                           /\ ret' = "ErrWrite"
                           /\ UNCHANGED <<csv, emitted, wpos>>
    /\ UNCHANGED <<join, npaths, idx, files, results, marker, read, opens,
                   openFailed, nextCalls, parseFailed>>
    /\ UNCHANGED <<loadVars, orchVars>>

\* compare.go:115-119
Finish ==
    /\ pc = "write"
    /\ wpos = Len(files)
    /\ marker' = complete
    /\ ret' = "nil"
    /\ pc' = "done"
    /\ UNCHANGED <<join, npaths, idx, files, results, complete, wpos, csv,
                   emitted, read, opens, openFailed, nextCalls, parseFailed>>
    /\ UNCHANGED <<loadVars, orchVars>>

NextCompare ==
    \/ CheckPaths
    \/ OpenPath
    \/ ReadEntry
    \/ ReadEnd
    \/ WriteRow
    \/ Finish

(***************************************************************************)
(* The loader table: RegisterIdentifier and LoadIdentifier.                *)
(***************************************************************************)
Bytes == 0..MaxByte

InitLoad ==
    /\ loaders = [k \in 0..(NumLoaders - 1) |-> "nil"]
    /\ \E b \in Bytes \cup {-1}, e \in {"nil", "ErrEarlier"} :
          ls = [buf |-> IF b = -1 THEN <<>> ELSE <<b>>, err |-> e]
    /\ lpc = "init"
    /\ tag = -1
    /\ loadRet = "none"
    /\ panicked = FALSE

\* nothing is registered or loaded
IdleLoad ==
    /\ loaders = [k \in 0..(NumLoaders - 1) |-> "nil"]
    /\ ls = [buf |-> <<>>, err |-> "nil"]
    /\ lpc = "idle"
    /\ tag = -1
    /\ loadRet = "none"
    /\ panicked = FALSE

\* signature.LoadSaver.LoadByte: the zero byte once the cursor holds an error,
\* and an error when no byte is left
LoadByte(c) ==
    IF c.err # "nil" THEN [val |-> 0, ls |-> c]
    ELSE IF c.buf = <<>> THEN [val |-> 0, ls |-> [c EXCEPT !.err = "ErrEOF"]]
    ELSE [val |-> Head(c.buf), ls |-> [c EXCEPT !.buf = Tail(@)]]

\* core.go:45-47; an index outside the array panics (the tags tried are
\* those of the array and the first one past it)
RegisterIdentifier ==
    /\ lpc = "init"
    /\ ~panicked
    /\ \E id \in 0..NumLoaders :
          IF id < NumLoaders
          THEN /\ loaders' = [loaders EXCEPT ![id] = "loader"]
               /\ UNCHANGED panicked
          ELSE /\ panicked' = TRUE
               /\ UNCHANGED loaders
    /\ UNCHANGED <<ls, lpc, tag, loadRet>>
    /\ UNCHANGED <<compareVars, orchVars>>

\* core.go:49-59; loaders[int(id)] panics when id is outside the array; a
\* loader returns an identifier and may leave an error on the cursor
LoadIdentifier ==
    /\ lpc = "init"
    /\ ~panicked
    /\ lpc' = "done"
    /\ LET got == LoadByte(ls)
           id == got.val
       IN  /\ tag' = id
           /\ IF id >= NumLoaders
              THEN /\ panicked' = TRUE
                   /\ ls' = got.ls
                   /\ UNCHANGED loadRet
              ELSE IF loaders[id] = "nil"
              THEN /\ ls' = IF got.ls.err = "nil"
                            THEN [got.ls EXCEPT !.err = "bad identifier loader"]
                            ELSE got.ls
                   /\ loadRet' = "nil"
                   /\ UNCHANGED panicked
              ELSE /\ \E e \in {"nil", "ErrLoader"} :
                         ls' = IF got.ls.err = "nil"
                               THEN [got.ls EXCEPT !.err = e]
                               ELSE got.ls
                   /\ loadRet' = "identifier"
                   /\ UNCHANGED panicked
    /\ UNCHANGED loaders
    /\ UNCHANGED <<compareVars, orchVars>>

NextLoad ==
    \/ RegisterIdentifier
    \/ LoadIdentifier

(***************************************************************************)
(* The identification run of one file: the matchers of each type in turn,  *)
(* their results offered to the Recorders, Satisfied asked after each      *)
(* type, Report at the end.                                                *)
(***************************************************************************)
\* the number of Recorders (one per identifier)
NumRecorders == 2
\* the number of matchers of each type
MatchersPerType == 2
\* the largest number of results on one matcher's stream
MaxResults == 1

Recorders == 1..NumRecorders

\* the matcher types in the order they are run
Phases == <<ExtensionMatcher, ContainerMatcher, ByteMatcher>>

\* a matcher: the position of its type in Phases, and its number
Matchers == (1..Len(Phases)) \X (1..MatchersPerType)

InitOrch ==
    /\ opc = "match"
    /\ phase = 1
    /\ invoked = {}
    /\ stream = [m \in Matchers |-> 0]
    /\ offered = 0
    /\ satisfied = <<>>
    /\ reports = [r \in Recorders |-> 0]

\* no file is identified
IdleOrch ==
    /\ opc = "idle"
    /\ phase = 1
    /\ invoked = {}
    /\ stream = <<>>
    /\ offered = 0
    /\ satisfied = <<>>
    /\ reports = <<>>

\* Matcher.Identify of a matcher of the current type: a stream of results,
\* or an error and no result
Identify ==
    /\ opc = "match"
    /\ \E m \in Matchers \ invoked :
          /\ m[1] = phase
          /\ invoked' = invoked \cup {m}
          /\ \E n \in 0..MaxResults : stream' = [stream EXCEPT ![m] = n]
    /\ UNCHANGED <<opc, phase, offered, satisfied, reports>>
    /\ UNCHANGED <<compareVars, loadVars>>

\* one result of a stream is offered to the Recorders (Recorder.Record),
\* until one of them returns true
Record ==
    /\ opc = "match"
    /\ \E m \in invoked :
          /\ stream[m] > 0
          /\ stream' = [stream EXCEPT ![m] = @ - 1]
    /\ offered' = offered + 1
    /\ UNCHANGED <<opc, phase, invoked, satisfied, reports>>
    /\ UNCHANGED <<compareVars, loadVars>>

\* a bug: the answers of Satisfied are not used
EndPhase_neverSkips ==
    /\ opc = "match"
    /\ \A m \in Matchers : m[1] = phase => (m \in invoked /\ stream[m] = 0)
    /\ \E sat \in [Recorders -> BOOLEAN] :
          satisfied' = Append(satisfied, \A r \in Recorders : sat[r])
    /\ IF phase = Len(Phases)
       THEN opc' = "report" /\ phase' = phase
       ELSE opc' = opc /\ phase' = phase + 1
    /\ UNCHANGED <<invoked, stream, offered, reports>>
    /\ UNCHANGED <<compareVars, loadVars>>

\* every matcher of the current type has run and its stream is drained:
\* Recorder.Satisfied of every Recorder; the later types are skipped when
\* all are satisfied
EndPhase ==
    /\ opc = "match"
    /\ \A m \in Matchers : m[1] = phase => (m \in invoked /\ stream[m] = 0)
    /\ \E sat \in [Recorders -> BOOLEAN] :
          LET all == \A r \in Recorders : sat[r]
          IN  /\ satisfied' = Append(satisfied, all)
              /\ IF all \/ phase = Len(Phases)
                 THEN opc' = "report" /\ phase' = phase
                 ELSE opc' = opc /\ phase' = phase + 1
    /\ UNCHANGED <<invoked, stream, offered, reports>>
    /\ UNCHANGED <<compareVars, loadVars>>

\* Recorder.Report of a Recorder that has not reported yet
Report ==
    /\ opc = "report"
    /\ \E r \in Recorders :
          /\ reports[r] = 0
          /\ reports' = [reports EXCEPT ![r] = 1]
          /\ opc' = IF \A q \in Recorders \ {r} : reports[q] = 1
                    THEN "done" ELSE opc
    /\ UNCHANGED <<phase, invoked, stream, offered, satisfied>>
    /\ UNCHANGED <<compareVars, loadVars>>

NextOrch ==
    \/ Identify
    \/ Record
    \/ EndPhase
    \/ Report

(***************************************************************************)
(* The specifications: one call of Compare; the registrations and one call *)
(* of LoadIdentifier; the identification run of one file.                  *)
(***************************************************************************)
Init == InitCompare /\ IdleLoad /\ IdleOrch

Spec == Init /\ [][NextCompare]_vars

InitLoadOnly == IdleCompare /\ InitLoad /\ IdleOrch

SpecLoad == InitLoadOnly /\ [][NextLoad]_vars

InitOrchOnly == IdleCompare /\ IdleLoad /\ InitOrch

SpecOrch == InitOrchOnly /\ [][NextOrch]_vars

(***************************************************************************)
(* Vocabulary of the properties of Compare.                                *)
(***************************************************************************)
\* the readers have all been consumed
Consumed == pc = "write" \/ (pc = "done" /\ ret \in {"nil", "ErrWrite"})

\* Compare returned nil
Returned == pc = "done" /\ ret = "nil"

Readers == 0..(npaths - 1)

\* the positions in reader r's entries of those with key k
Positions(r, k) == {p \in 1..Len(read[r]) : keygen(join, read[r][p]) = k}

\* the keys of the entries delivered
ObservedKeys == UNION {{keygen(join, read[r][p]) : p \in 1..Len(read[r])} : r \in Readers}

\* the number of entries delivered
RECURSIVE SumLen(_)
SumLen(rs) ==
    IF rs = {} THEN 0
    ELSE LET r == CHOOSE x \in rs : TRUE
         IN  Len(read[r]) + SumLen(rs \ {r})

EmittedKeys == {emitted[p] : p \in 1..Len(emitted)}

\* every identification column of the row holds the same text
AllColumnsEqual(row) == \A a, b \in 2..Len(row) : row[a] = row[b]

\* the columns that are not "MISSING" hold the same text
PresentColumnsEqual(row) ==
    \A a, b \in 2..Len(row) :
        (row[a] # MISSING /\ row[b] # MISSING) => row[a] = row[b]

\* a sorted list without its repetitions
RECURSIVE Dedup(_)
Dedup(ss) ==
    IF Len(ss) < 2 THEN ss
    ELSE IF ss[1] = ss[2] THEN Dedup(Tail(ss))
    ELSE <<ss[1]>> \o Dedup(Tail(ss))

(***************************************************************************)
(* C1                                                                      *)
(***************************************************************************)
\* C1, as stated: when Compare returns, a row is left out of the CSV output
\* if and only if its columns other than those holding "MISSING" are identical.
C1_Original ==
    Returned =>
        \A k \in DOMAIN results :
            (k \notin EmittedKeys) <=> PresentColumnsEqual(results[k])

\* C1, amended: when Compare returns, a row is left out of the CSV output if
\* and only if all its identification columns, those holding "MISSING"
\* included, are identical; the records written are the other rows, once each,
\* in the order of files.
C1_RowLeftOutIffAllColumnsEqual ==
    Returned =>
        /\ \A k \in DOMAIN results :
              (k \notin EmittedKeys) <=> AllColumnsEqual(results[k])
        /\ csv = [p \in 1..Len(emitted) |-> results[emitted[p]]]
        /\ emitted = SelectSeq(files, LAMBDA k : k \in EmittedKeys)

\* a run that leaves one row out and writes a row whose one difference is a
\* "MISSING" column
C1_Witness ==
    /\ Returned
    /\ \E k \in DOMAIN results : k \notin EmittedKeys
    /\ \E k \in EmittedKeys :
          /\ \E c \in 2..Len(results[k]) : results[k][c] = MISSING
          /\ PresentColumnsEqual(results[k])

(***************************************************************************)
(* C2                                                                      *)
(***************************************************************************)
\* C2: once the readers are consumed, the rows are those of the keys
\* observed, files lists each of these keys once, and every row has
\* len(paths)+1 columns.
C2_OneRowPerKey ==
    Consumed =>
        /\ DOMAIN results = ObservedKeys
        /\ {files[p] : p \in 1..Len(files)} = ObservedKeys
        /\ \A a, b \in 1..Len(files) : files[a] = files[b] => a = b
        /\ \A k \in DOMAIN results : DOMAIN results[k] = 1..(npaths + 1)

\* several keys, and more entries than keys
C2_Witness ==
    /\ Returned
    /\ Cardinality(ObservedKeys) >= 2
    /\ SumLen(Readers) > Cardinality(ObservedKeys)

(***************************************************************************)
(* C3                                                                      *)
(***************************************************************************)
\* C3, as stated: "COMPLETE MATCH" is written exactly when a row exists and
\* no row mismatches, and then no CSV record is written.
C3_Original ==
    pc = "done" =>
        /\ marker <=> (files # <<>> /\ \A k \in DOMAIN results : AllColumnsEqual(results[k]))
        /\ marker => csv = <<>>

(***************************************************************************)
(* C4                                                                      *)
(***************************************************************************)
\* C4, as stated: the column written for an entry is the semicolon-joined
\* list of its identity strings, sorted and without repetitions.
C4_Original ==
    \A r \in Readers : \A p \in 1..Len(read[r]) :
        LET fi == read[r][p]
            k == keygen(join, fi)
        IN  (\A q \in Positions(r, k) : q <= p) =>
                results[k][r + 2] = Join(Dedup(SortStrings(fi.IDs)), Semicolon)

(***************************************************************************)
(* C5                                                                      *)
(***************************************************************************)
\* C5, as stated: when Compare returns, a row whose key some reader never
\* delivered holds "MISSING" in that reader's column and is written to the
\* CSV output.
C5_Original ==
    Returned =>
        \A k \in DOMAIN results : \A r \in Readers :
            Positions(r, k) = {} =>
                (results[k][r + 2] = MISSING /\ k \in EmittedKeys)

(***************************************************************************)
(* C7                                                                      *)
(***************************************************************************)
\* C7, as stated: after a Next has failed with an error other than io.EOF
\* nothing is written, and Compare returns that error.
C7_Original ==
    parseFailed =>
        /\ csv = <<>>
        /\ ~marker
        /\ pc = "done" => ret = "ErrParse"

(***************************************************************************)
(* C8                                                                      *)
(***************************************************************************)
\* C8: with fewer than 2 paths Compare opens nothing and returns the usage
\* error; once an Open has failed Compare has returned that error, no Next
\* has been called and nothing has been written.
C8_ConfigErrorsLeaveNoTrace ==
    /\ npaths < 2 =>
          /\ opens = 0 /\ nextCalls = 0 /\ csv = <<>> /\ ~marker
          /\ pc = "done" => ret = "ErrTooFewPaths"
    /\ openFailed =>
          /\ pc = "done" /\ ret = "ErrOpen"
          /\ nextCalls = 0 /\ csv = <<>> /\ ~marker

\* the second Open fails
C8_Witness == openFailed /\ opens >= 2 /\ ret = "ErrOpen"

(***************************************************************************)
(* C10                                                                     *)
(***************************************************************************)
\* C10: the column of reader r in the row of key k holds the identification
\* string of the last entry with key k that r delivered, and "MISSING" when
\* r delivered none (in every state, so that a write leaves the columns of
\* the other readers as they were).
C10_LastEntryWins ==
    \A k \in DOMAIN results : \A r \in Readers :
        results[k][r + 2] =
            IF Positions(r, k) = {} THEN MISSING
            ELSE LET last == CHOOSE p \in Positions(r, k) :
                                 \A q \in Positions(r, k) : q <= p
                 IN  idStr(read[r][last])

\* a reader delivered two entries with one key and different identification
\* strings, and another reader delivered an entry with that key
C10_Witness ==
    /\ Returned
    /\ \E r \in Readers, k \in DOMAIN results :
          /\ \E p, q \in Positions(r, k) :
                p < q /\ idStr(read[r][p]) # idStr(read[r][q])
          /\ \E r2 \in Readers \ {r} : Positions(r2, k) # {}

(***************************************************************************)
(* C6                                                                      *)
(***************************************************************************)
\* the tag has no registered loader
NoLoader(t) == t \notin 0..(NumLoaders - 1) \/ loaders[t] = "nil"

\* C6, as stated: after LoadIdentifier has read a tag that has no registered
\* loader, it has returned nil without a panic and the cursor holds an error.
C6_Original ==
    (lpc = "done" /\ NoLoader(tag)) =>
        /\ ~panicked
        /\ loadRet = "nil"
        /\ ls.err # "nil"

(***************************************************************************)
(* C9                                                                      *)
(***************************************************************************)
\* C9: a matcher is invoked only after every matcher of the earlier types
\* has been invoked and drained; once every Recorder was satisfied after a
\* type, no matcher of a later type is invoked; no Recorder reports twice,
\* and at the end of the run each has reported once.
C9_PhaseGating ==
    /\ \A m \in invoked : \A m2 \in Matchers :
          m2[1] < m[1] => (m2 \in invoked /\ stream[m2] = 0)
    /\ \A q \in 1..Len(satisfied) :
          satisfied[q] => \A m \in invoked : m[1] <= q
    /\ \A r \in Recorders : reports[r] <= 1
    /\ opc = "done" => \A r \in Recorders : reports[r] = 1

\* a run in which every Recorder was satisfied after the extension matchers:
\* these have all run, no other matcher has, and every Recorder has reported
C9_Witness ==
    /\ opc = "done"
    /\ Len(satisfied) = 1 /\ satisfied[1]
    /\ Phases[1] = ExtensionMatcher
    /\ invoked = {m \in Matchers : m[1] = 1}
    /\ offered > 0
    /\ \A r \in Recorders : reports[r] = 1

=============================================================================
